---- MODULE Spec2Model ----
(***************************************************************************)
(* The pipeline topology built by the PipelineStack constructor            *)
(* (src/pipeline-stack+(1).ts): the stages it adds to the pipeline, the    *)
(* artifacts it creates, the actions it attaches and the notification rule *)
(* it creates, statement by statement, for one stack after another.        *)
(* A finished pipeline can then be run: its stages execute in order and    *)
(* the manual approval gate is answered Approve or Reject.                 *)
(***************************************************************************)
EXTENDS Integers, Sequences, FiniteSets, TLC

\* How many stacks are constructed, and how many pipeline runs are started.
MaxStacks == 2
MaxRuns == 2

\* The value of a JavaScript variable that was declared and never assigned.
Undefined == "undefined"

\* The environment descriptors handed to the constructor: the fields of
\* CodebuildOptions that decide the topology (ENV, line 167 and 262) or reach
\* an action's parameters (branch, line 198).
Environments ==
    { [ENV |-> "dev", branch |-> "develop"],
      [ENV |-> "dev", branch |-> "main"],
      [ENV |-> "staging", branch |-> "main"],
      [ENV |-> "prod", branch |-> "main"] }

\* No action object (a variable that holds no action yet).
NoAction ==
    [actionName |-> "", class |-> "none", inputs |-> {}, outputs |-> {},
     branch |-> ""]

VARIABLES
    stacks,   \* the stacks constructed so far, in order; the last may be under construction
    heap,     \* the Artifact objects created by `new codepipeline.Artifact(name)`
    run,      \* the current execution of a finished pipeline
    runs      \* how many executions were started

vars == <<stacks, heap, run, runs>>

\* ------------------------------------------------------------------------
\* Library calls, as the constructor uses them
\* ------------------------------------------------------------------------

InsertAt(seq, idx, e) ==
    SubSeq(seq, 1, idx - 1) \o <<e>> \o SubSeq(seq, idx, Len(seq))

IndexOf(stages, name) ==
    CHOOSE k \in 1..Len(stages) : stages[k].name = name

HasStage(stages, name) ==
    \E k \in 1..Len(stages) : stages[k].name = name

\* codePipeline.addStage({stageName, placement: {justAfter}}): without a
\* placement the stage goes last, with justAfter it goes right behind the
\* stage referred to.
addStage(stages, stageName, justAfter) ==
    LET st == [name |-> stageName, justAfter |-> justAfter, actions |-> <<>>]
    IN  IF justAfter = Undefined
        THEN Append(stages, st)
        ELSE InsertAt(stages, IndexOf(stages, justAfter) + 1, st)

\* stage.addAction(action): the action joins the stage's actions.
addAction(stages, stageRef, action) ==
    [k \in 1..Len(stages) |->
        IF stages[k].name = stageRef
        THEN [stages[k] EXCEPT !.actions = Append(@, action)]
        ELSE stages[k]]

\* A mutant of NewArtifact: an artifact of that name is looked up first and
\* shared when it exists.
NewArtifactSharedByName(h, name) ==
    IF \E k \in 1..Len(h) : h[k].name = name
    THEN [heap |-> h, handle |-> CHOOSE k \in 1..Len(h) : h[k].name = name]
    ELSE [heap |-> Append(h, [name |-> name]), handle |-> Len(h) + 1]

\* new codepipeline.Artifact(name): a new object each time.
NewArtifact(h, name) ==
    [heap |-> Append(h, [name |-> name]), handle |-> Len(h) + 1]

\* ------------------------------------------------------------------------
\* The decisions the constructor takes
\* ------------------------------------------------------------------------

\* A mutant of IncludesApproval: the stage is added for "prod" only.
IncludesApprovalProdOnly(env) == env.ENV = "prod"

\* if (environment.ENV !== 'dev') around the Approval stage (line 167).
IncludesApproval(env) == env.ENV # "dev"

\* A mutant of BindsApproval: the action is created for "prod" only.
BindsApprovalProdOnly(env) == env.ENV = "prod"

\* if (environment.ENV !== 'dev') around the approval action (line 262).
BindsApproval(env) == env.ENV # "dev"

\* A mutant of DeployPlacement: Deploy always goes behind Build.
DeployPlacementBuildOnly(approveStage, buildStage) == buildStage

\* A mutant of DeployPlacement: `&&` in place of `||`.
DeployPlacementAnd(approveStage, buildStage) ==
    IF approveStage # Undefined THEN buildStage ELSE approveStage

\* justAfter: approveStage || buildStage (line 181).
DeployPlacement(approveStage, buildStage) ==
    IF approveStage # Undefined THEN approveStage ELSE buildStage

\* A mutant of BuildInput: the build action reads its own output.
BuildInputOwnOutput(s) == s.buildOutput

\* input: sourceOutput of buildAction (line 255).
BuildInput(s) == s.sourceOutput

\* input: buildOutput of deployAction (line 326).
DeployInput(s) == s.buildOutput

\* ------------------------------------------------------------------------
\* The constructor, statement by statement
\* ------------------------------------------------------------------------

\* The stack as the constructor finds it once `new codepipeline.Pipeline`
\* (line 144) has run: a pipeline without stages, every local unassigned.
NewStack(env) ==
    [env |-> env, pc |-> "addSource", stages |-> <<>>,
     sourceStage |-> Undefined, buildStage |-> Undefined,
     approveStage |-> Undefined, deployStage |-> Undefined,
     sourceOutput |-> 0, buildOutput |-> 0,
     sourceAction |-> NoAction, buildAction |-> NoAction,
     approvalAction |-> NoAction, deployAction |-> NoAction,
     bindLog |-> <<>>, rules |-> {}]

Constructing == stacks # <<>> /\ stacks[Len(stacks)].pc # "done"

RunActive == run.status \in {"running", "waiting"}

Cur == stacks[Len(stacks)]

At(label) == stacks # <<>> /\ Cur.pc = label

SetCur(s) == stacks' = [stacks EXCEPT ![Len(stacks)] = s]

\* new PipelineStack(scope, id, environment): the constructor is entered.
Construct ==
    /\ Len(stacks) < MaxStacks
    /\ ~Constructing
    /\ ~RunActive
    /\ \E env \in Environments : stacks' = Append(stacks, NewStack(env))
    /\ UNCHANGED <<heap, run, runs>>

\* const sourceStage = codePipeline.addStage({stageName: 'Source'})
AddSourceStage ==
    /\ At("addSource")
    /\ SetCur([Cur EXCEPT !.stages = addStage(@, "Source", Undefined),
                          !.sourceStage = "Source",
                          !.pc = "addBuild"])
    /\ UNCHANGED <<heap, run, runs>>

\* const buildStage = codePipeline.addStage({stageName: 'Build', placement: {justAfter: sourceStage}})
AddBuildStage ==
    /\ At("addBuild")
    /\ SetCur([Cur EXCEPT !.stages = addStage(@, "Build", Cur.sourceStage),
                          !.buildStage = "Build",
                          !.pc = "addApproval"])
    /\ UNCHANGED <<heap, run, runs>>

\* let approveStage; if (environment.ENV !== 'dev') approveStage = codePipeline.addStage(...)
AddApprovalStage ==
    /\ At("addApproval")
    /\ IF IncludesApproval(Cur.env)
       THEN SetCur([Cur EXCEPT !.stages = addStage(@, "Approval", Cur.buildStage),
                               !.approveStage = "Approval",
                               !.pc = "addDeploy"])
       ELSE SetCur([Cur EXCEPT !.pc = "addDeploy"])
    /\ UNCHANGED <<heap, run, runs>>

\* const deployStage = codePipeline.addStage({stageName: 'Deploy', placement: {justAfter: approveStage || buildStage}})
AddDeployStage ==
    /\ At("addDeploy")
    /\ SetCur([Cur EXCEPT
                 !.stages = addStage(@, "Deploy",
                                     DeployPlacement(Cur.approveStage, Cur.buildStage)),
                 !.deployStage = "Deploy",
                 !.pc = "newSourceAction"])
    /\ UNCHANGED <<heap, run, runs>>

\* const sourceOutput = new codepipeline.Artifact('sourceOutput');
\* const sourceAction = new cpaction.GitHubSourceAction({..., output: sourceOutput})
NewSourceAction ==
    /\ At("newSourceAction")
    /\ LET a == NewArtifact(heap, "sourceOutput")
       IN  /\ heap' = a.heap
           /\ SetCur([Cur EXCEPT
                        !.sourceOutput = a.handle,
                        !.sourceAction =
                            [actionName |-> "bridge-api-codebuild-action-" \o Cur.env.ENV \o "-v2",
                             class |-> "GitHubSourceAction",
                             inputs |-> {}, outputs |-> {a.handle},
                             branch |-> Cur.env.branch],
                        !.pc = "attachSource"])
    /\ UNCHANGED <<run, runs>>

\* sourceStage.addAction(sourceAction)
AttachSource ==
    /\ At("attachSource")
    /\ SetCur([Cur EXCEPT !.stages = addAction(@, Cur.sourceStage, Cur.sourceAction),
                          !.bindLog = Append(@, Cur.sourceAction),
                          !.pc = "newBuildAction"])
    /\ UNCHANGED <<heap, run, runs>>

\* const buildOutput = new codepipeline.Artifact('buildOutput');
\* const buildAction = new cpaction.CodeBuildAction({actionName: 'Build', input: sourceOutput, outputs: [buildOutput]})
NewBuildAction ==
    /\ At("newBuildAction")
    /\ LET a == NewArtifact(heap, "buildOutput")
           s == [Cur EXCEPT !.buildOutput = a.handle]
       IN  /\ heap' = a.heap
           /\ SetCur([s EXCEPT
                        !.buildAction =
                            [actionName |-> "Build",
                             class |-> "CodeBuildAction",
                             inputs |-> {BuildInput(s)}, outputs |-> {a.handle},
                             branch |-> ""],
                        !.pc = "attachBuild"])
    /\ UNCHANGED <<run, runs>>

\* buildStage.addAction(buildAction)
AttachBuild ==
    /\ At("attachBuild")
    /\ SetCur([Cur EXCEPT !.stages = addAction(@, Cur.buildStage, Cur.buildAction),
                          !.bindLog = Append(@, Cur.buildAction),
                          !.pc = "approval"])
    /\ UNCHANGED <<heap, run, runs>>

\* if (environment.ENV !== 'dev') { const approvalAction = new cpaction.ManualApprovalAction(...);
\*                                  approveStage?.addAction(approvalAction); }
\* With approveStage undefined the optional call does nothing.
ApprovalAction ==
    /\ At("approval")
    /\ IF BindsApproval(Cur.env)
       THEN LET act == [actionName |-> "ApprovalOrDeny",
                        class |-> "ManualApprovalAction",
                        inputs |-> {}, outputs |-> {}, branch |-> ""]
            IN  IF Cur.approveStage # Undefined
                THEN SetCur([Cur EXCEPT
                               !.approvalAction = act,
                               !.stages = addAction(@, Cur.approveStage, act),
                               !.bindLog = Append(@, act),
                               !.pc = "newDeployAction"])
                ELSE SetCur([Cur EXCEPT !.approvalAction = act,
                                        !.pc = "newDeployAction"])
       ELSE SetCur([Cur EXCEPT !.pc = "newDeployAction"])
    /\ UNCHANGED <<heap, run, runs>>

\* const deployAction = new cpaction.CodeBuildAction({actionName: 'Deploy', input: buildOutput})
NewDeployAction ==
    /\ At("newDeployAction")
    /\ SetCur([Cur EXCEPT
                 !.deployAction =
                     [actionName |-> "Deploy", class |-> "CodeBuildAction",
                      inputs |-> {DeployInput(Cur)}, outputs |-> {},
                      branch |-> ""],
                 !.pc = "attachDeploy"])
    /\ UNCHANGED <<heap, run, runs>>

\* deployStage.addAction(deployAction)
AttachDeploy ==
    /\ At("attachDeploy")
    /\ SetCur([Cur EXCEPT !.stages = addAction(@, Cur.deployStage, Cur.deployAction),
                          !.bindLog = Append(@, Cur.deployAction),
                          !.pc = "notify"])
    /\ UNCHANGED <<heap, run, runs>>

\* new codestarnotification.CfnNotificationRule(this, 'bridge-api-codestar-notification',
\*     {eventTypeIds: [succeeded, failed], resource: codePipeline.pipelineArn,
\*      targets: [{targetType: 'SNS', targetAddress: snsJiraArn}]})
NotificationRule ==
    /\ At("notify")
    /\ SetCur([Cur EXCEPT
                 !.rules = @ \cup {[name |-> "bridge-api-" \o Cur.env.ENV
                                                \o "-codepipeline-notification",
                                    events |-> {"succeeded", "failed"},
                                    resource |-> Len(stacks),
                                    target |-> "JIRA_INTEGRATION"]},
                 !.pc = "done"])
    /\ UNCHANGED <<heap, run, runs>>

\* ------------------------------------------------------------------------
\* A run of a finished pipeline
\* ------------------------------------------------------------------------

IdleRun ==
    [stack |-> 0, idx |-> 0, status |-> "idle", invoked |-> {},
     decision |-> "none", notified |-> {}]

\* The sinks told about a run's outcome: the targets of the pipeline's rules
\* that list the event.
Notified(s, event) ==
    { r.target : r \in { q \in s.rules : event \in q.events } }

IsGate(stage) ==
    \E k \in 1..Len(stage.actions) : stage.actions[k].class = "ManualApprovalAction"

ActionNames(stage) ==
    { stage.actions[k].actionName : k \in 1..Len(stage.actions) }

\* The run with stage run.idx finished and its actions invoked: on to the next
\* stage, or succeeded behind the last one.
Advance(r, s, names) ==
    IF r.idx = Len(s.stages)
    THEN [r EXCEPT !.invoked = @ \cup names, !.status = "succeeded",
                   !.notified = Notified(s, "succeeded")]
    ELSE [r EXCEPT !.invoked = @ \cup names, !.idx = @ + 1, !.status = "running"]

\* An execution of a finished pipeline starts at its first stage.
StartRun ==
    /\ ~Constructing
    /\ ~RunActive
    /\ runs < MaxRuns
    /\ \E i \in 1..Len(stacks) :
          run' = [IdleRun EXCEPT !.stack = i, !.idx = 1, !.status = "running"]
    /\ runs' = runs + 1
    /\ UNCHANGED <<stacks, heap>>

\* The current stage runs: a stage holding the manual approval waits for the
\* decision, any other stage invokes its actions and hands over to the next.
ExecStage ==
    /\ run.status = "running"
    /\ LET s == stacks[run.stack]
           stage == s.stages[run.idx]
       IN  run' = IF IsGate(stage)
                  THEN [run EXCEPT !.status = "waiting"]
                  ELSE Advance(run, s, ActionNames(stage))
    /\ UNCHANGED <<stacks, heap, runs>>

\* The external actor answers the gate: Approve moves on to the next stage,
\* Reject ends the run as failed.
Decide ==
    /\ run.status = "waiting"
    /\ LET s == stacks[run.stack]
           stage == s.stages[run.idx]
       IN  \E d \in {"Approve", "Reject"} :
              run' = IF d = "Approve"
                     THEN Advance([run EXCEPT !.decision = d], s, ActionNames(stage))
                     ELSE [run EXCEPT !.decision = d, !.status = "failed",
                                      !.notified = Notified(s, "failed")]
    /\ UNCHANGED <<stacks, heap, runs>>

\* ------------------------------------------------------------------------

Init ==
    /\ stacks = <<>>
    /\ heap = <<>>
    /\ run = IdleRun
    /\ runs = 0

Next ==
    \/ Construct
    \/ AddSourceStage
    \/ AddBuildStage
    \/ AddApprovalStage
    \/ AddDeployStage
    \/ NewSourceAction
    \/ AttachSource
    \/ NewBuildAction
    \/ AttachBuild
    \/ ApprovalAction
    \/ NewDeployAction
    \/ AttachDeploy
    \/ NotificationRule
    \/ StartRun
    \/ ExecStage
    \/ Decide

Spec == Init /\ [][Next]_vars

\* ------------------------------------------------------------------------
\* Properties
\* ------------------------------------------------------------------------

Done(s) == s.pc = "done"

StageNames(s) == [k \in 1..Len(s.stages) |-> s.stages[k].name]

StageNamed(s, name) == s.stages[IndexOf(s.stages, name)]

IsPrefix(a, b) == Len(a) <= Len(b) /\ a = SubSeq(b, 1, Len(a))

\* The spec's isProduction: the environment is not the low-ceremony tier,
\* which the descriptor names "dev".
isProduction(env) == env.ENV # "dev"

ExpectedStages(env) ==
    IF isProduction(env)
    THEN <<"Source", "Build", "Approval", "Deploy">>
    ELSE <<"Source", "Build", "Deploy">>

StagesAdded(s) == s.pc \notin {"addSource", "addBuild", "addApproval", "addDeploy"}

\* C1: once the constructor has added its stages the pipeline holds exactly
\* Source, Build, Approval, Deploy in this order for a production
\* environment and exactly Source, Build, Deploy otherwise; while the stages
\* are being added the pipeline holds a prefix of that sequence, so no other
\* stage, no duplicate name and no other order is ever reached.
C1_StageSequence ==
    \A i \in 1..Len(stacks) :
        LET s == stacks[i]
        IN  /\ IsPrefix(StageNames(s), ExpectedStages(s.env))
            /\ StagesAdded(s) => StageNames(s) = ExpectedStages(s.env)

C1_Witness ==
    \E i, j \in 1..Len(stacks) :
        /\ Done(stacks[i]) /\ isProduction(stacks[i].env)
        /\ Len(stacks[i].stages) = 4
        /\ Done(stacks[j]) /\ ~isProduction(stacks[j].env)
        /\ Len(stacks[j].stages) = 3

\* The actions of the topology: those held by some stage.
StageActions(s) ==
    UNION { { s.stages[k].actions[m] : m \in 1..Len(s.stages[k].actions) } :
            k \in 1..Len(s.stages) }

\* Artifact h was the output of an action attached before the k-th attach.
ProducedBefore(s, k, h) ==
    \E m \in 1..(k - 1) : h \in s.bindLog[m].outputs

\* C2: whenever an action is attached, each of its input artifacts is the
\* output of an action attached earlier to the same pipeline; this holds in
\* every state of the construction and in the finished topology, where Build
\* reads sourceOutput and Deploy reads buildOutput.
C2_InputsProducedAtBind ==
    \A i \in 1..Len(stacks) :
        LET s == stacks[i]
        IN  /\ \A k \in 1..Len(s.bindLog) :
                  \A h \in s.bindLog[k].inputs :
                      h \in 1..Len(heap) /\ ProducedBefore(s, k, h)
            /\ StageActions(s) = { s.bindLog[k] : k \in 1..Len(s.bindLog) }
            /\ Done(s) =>
                  /\ s.buildAction.inputs = {s.sourceOutput}
                  /\ s.deployAction.inputs = {s.buildOutput}
                  /\ {s.buildAction, s.deployAction} \subseteq StageActions(s)

C2_Witness ==
    \E i \in 1..Len(stacks) :
        LET s == stacks[i]
        IN  /\ Done(s)
            /\ \E k, m \in 1..Len(s.bindLog) :
                  /\ s.bindLog[k].actionName = "Build"
                  /\ s.bindLog[m].actionName = "Deploy"
                  /\ s.bindLog[k].inputs # {}
                  /\ s.bindLog[m].inputs = s.bindLog[k].outputs

\* C3: the stage the Deploy stage is placed behind is the Approval stage when
\* the pipeline has one and the Build stage otherwise; it is a stage of the
\* pipeline, it is never Source, and it is the stage right before Deploy.
C3_DeployPlacement ==
    \A i \in 1..Len(stacks) :
        LET s == stacks[i]
        IN  HasStage(s.stages, "Deploy") =>
               LET d == StageNamed(s, "Deploy")
                   at == IndexOf(s.stages, "Deploy")
               IN  /\ d.justAfter =
                         IF HasStage(s.stages, "Approval") THEN "Approval" ELSE "Build"
                   /\ d.justAfter # "Source"
                   /\ HasStage(s.stages, d.justAfter)
                   /\ at > 1
                   /\ s.stages[at - 1].name = d.justAfter

C3_Witness ==
    \E i, j \in 1..Len(stacks) :
        /\ HasStage(stacks[i].stages, "Deploy")
        /\ StageNamed(stacks[i], "Deploy").justAfter = "Approval"
        /\ HasStage(stacks[j].stages, "Deploy")
        /\ StageNamed(stacks[j], "Deploy").justAfter = "Build"

\* C6: in a run of a pipeline that has the Approval stage, the Deploy action
\* is invoked only after the gate was answered Approve; after Reject the run
\* has failed and Deploy was not invoked, while the pipeline the run belongs
\* to was constructed to the end.
C6_DeployOnlyAfterApprove ==
    run.stack # 0 =>
        LET s == stacks[run.stack]
        IN  /\ Done(s)
            /\ HasStage(s.stages, "Approval") =>
                  /\ s.deployAction.actionName \in run.invoked
                        => run.decision = "Approve"
                  /\ run.decision = "Reject" =>
                        /\ run.status = "failed"
                        /\ s.deployAction.actionName \notin run.invoked
                        /\ s.deployAction \in StageActions(s)

C6_Witness ==
    /\ run.stack # 0
    /\ HasStage(stacks[run.stack].stages, "Approval")
    /\ run.decision = "Reject"
    /\ run.status = "failed"
    /\ "Build" \in run.invoked

ApprovalActions(s) == { a \in StageActions(s) : a.class = "ManualApprovalAction" }

ApprovalStepDone(s) == s.pc \in {"newDeployAction", "attachDeploy", "notify", "done"}

\* C9: once the constructor is past its approval block, an approval action is
\* in the topology exactly if the Approval stage is: for "dev" the variable
\* approveStage is undefined, there is no Approval stage and no approval
\* action was created or attached; otherwise the Approval stage holds exactly
\* the approval action that was created, so the optional call neither drops
\* an action nor leaves the stage empty.
C9_ApprovalActionIffStage ==
    \A i \in 1..Len(stacks) :
        LET s == stacks[i]
        IN  ApprovalStepDone(s) =>
               /\ (ApprovalActions(s) # {}) <=> HasStage(s.stages, "Approval")
               /\ s.env.ENV = "dev" =>
                     /\ s.approveStage = Undefined
                     /\ ~HasStage(s.stages, "Approval")
                     /\ s.approvalAction = NoAction
                     /\ ApprovalActions(s) = {}
               /\ HasStage(s.stages, "Approval") =>
                     /\ s.approveStage = "Approval"
                     /\ s.approvalAction # NoAction
                     /\ StageNamed(s, "Approval").actions = <<s.approvalAction>>
               /\ s.approvalAction # NoAction =>
                     /\ HasStage(s.stages, "Approval")
                     /\ ApprovalActions(s) = {s.approvalAction}

C9_Witness ==
    \E i, j \in 1..Len(stacks) :
        /\ Done(stacks[i]) /\ stacks[i].env.ENV = "dev"
        /\ stacks[i].approveStage = Undefined
        /\ Done(stacks[j]) /\ stacks[j].env.ENV = "staging"
        /\ Len(StageNamed(stacks[j], "Approval").actions) = 1

\* An action with its artifacts named instead of referred to.
NamedAction(a) ==
    [a EXCEPT !.inputs = { heap[h].name : h \in a.inputs },
              !.outputs = { heap[h].name : h \in a.outputs }]

\* A topology up to the identity of its objects: stages, order, placement,
\* actions, artifact wiring by name, and the notification rules.
Topology(i) ==
    LET s == stacks[i]
    IN  [stages |-> [k \in 1..Len(s.stages) |->
                       [name |-> s.stages[k].name,
                        justAfter |-> s.stages[k].justAfter,
                        actions |-> [m \in 1..Len(s.stages[k].actions) |->
                                        NamedAction(s.stages[k].actions[m])]]],
         rules |-> { [r EXCEPT !.resource = 0] : r \in s.rules }]

\* The artifact objects a stack refers to.
Handles(s) ==
    ({s.sourceOutput, s.buildOutput} \ {0})
        \cup UNION { a.inputs \cup a.outputs :
                     a \in {s.sourceAction, s.buildAction, s.approvalAction,
                            s.deployAction} \cup StageActions(s) }

\* The attached actions, of any stack, that have artifact h as an output.
Producers(h) ==
    { <<i, k>> \in (1..Len(stacks)) \X (1..5) :
        k <= Len(stacks[i].bindLog) /\ h \in stacks[i].bindLog[k].outputs }

\* All that belongs to stack i: its pipeline and locals, and its artifacts
\* with their producers.
View(i) ==
    [stack |-> stacks[i],
     artifacts |-> [h \in Handles(stacks[i]) |->
                      [name |-> heap[h].name, producers |-> Producers(h)]]]

C10_Deterministic ==
    \A i, j \in 1..Len(stacks) :
        (Done(stacks[i]) /\ Done(stacks[j]) /\ stacks[i].env = stacks[j].env)
            => Topology(i) = Topology(j)

C10_NothingShared ==
    \A i, j \in 1..Len(stacks) :
        i # j => Handles(stacks[i]) \cap Handles(stacks[j]) = {}

C10_Frame ==
    \A i \in 1..Len(stacks) : Done(stacks[i]) => View(i)' = View(i)

\* C10: two constructions from equal environment descriptors end in equal
\* topologies (stages, order, actions, artifact wiring), no two stacks refer
\* to a common artifact object, and no step changes a finished stack's
\* pipeline, actions or artifacts.
C10_DeterministicAndIndependent ==
    [](C10_Deterministic /\ C10_NothingShared) /\ [][C10_Frame]_vars

C10_Witness ==
    /\ Len(stacks) >= 2
    /\ Done(stacks[1]) /\ Done(stacks[2])
    /\ stacks[1].env = stacks[2].env
    /\ isProduction(stacks[1].env)
    /\ stacks[1].sourceOutput # stacks[2].sourceOutput
    /\ Topology(1) = Topology(2)

====
